---- MODULE Spec2Model ----
(***************************************************************************)
(* HostManager (supervisor/host/manager.py): the memoized list of host     *)
(* features, the reload of the host subsystems, the start-up load and the  *)
(* hardware-event handler, as one state machine.  The event loop is        *)
(* cooperative: a coroutine runs atomically from one await to the next.    *)
(* One reload() is in flight at a time, called by load() or by another     *)
(* caller; reads of features, changes of the probes and hardware events    *)
(* interleave with it at its awaits.                                       *)
(***************************************************************************)
EXTENDS Naturals, Sequences, FiniteSets

\* ---------------------------------------------------------------- bounds
\* load() registers its handlers at most this many times
MaxLoads == 2

VARIABLES
    probe,      \* the signals read from sys_dbus and sys_os
    cache,      \* the lru_cache of supported_features, keyed by self
    hist,       \* the last of {a read of features, a cache_clear}; what the
                \* read returned and whether it ran the body of supported_features;
                \* whether the cache_clear dropped a cached list
    rl,         \* the reload() coroutine: the await it is suspended at, how it ended
    ld,         \* the load() coroutine
    listeners,  \* sys_bus: how many times _hardware_events is registered per event
    bus,        \* sys_bus: the handler invocations of the fired event still to run
    hw,         \* what the last invocation of _hardware_events did
    obs         \* the notes of an observer of the run, which nothing of the
                \* manager reads: they are taken in SpecTraced alone

vars == <<probe, cache, hist, rl, ld, listeners, bus, hw, obs>>

\* ------------------------------------------------------------- the probes
ProbeNames == {"systemd", "network", "hostname", "timedate", "agent", "os"}

\* the connections reload() looks at
ConnectionNames == {"systemd", "network", "agent"}

\* sys_dbus.network.interfaces: no interface, or the one interface eth0
InterfaceLists == {<<>>, <<"eth0">>}

Probes ==
    [systemd : BOOLEAN, network : BOOLEAN, interfaces : InterfaceLists,
     hostname : BOOLEAN, timedate : BOOLEAN, agent : BOOLEAN, os : BOOLEAN]

\* nothing is connected when the manager is constructed
Disconnected ==
    [systemd |-> FALSE, network |-> FALSE, interfaces |-> <<>>,
     hostname |-> FALSE, timedate |-> FALSE, agent |-> FALSE, os |-> FALSE]

\* -------------------------------------------------- supported_features()
\* features.extend(items) / features.append(item) under an if
ExtendIf(features, cond, items) == IF cond THEN features \o items ELSE features

\* if self.sys_dbus.systemd.is_connected
SystemdGuard(p) == p.systemd

\* if self.sys_dbus.network.is_connected and self.sys_dbus.network.interfaces
NetworkGuardNoInterfaces(p) == p.network
NetworkGuard(p) == p.network /\ p.interfaces # <<>>

\* what systemd.is_connected adds: REBOOT, SHUTDOWN, SERVICES
SystemdFeaturesNoShutdown == <<"REBOOT", "SERVICES">>
SystemdFeatures == <<"REBOOT", "SHUTDOWN", "SERVICES">>

\* the body of supported_features, on the probe values p
supported_features_swapped(p) ==
    LET f1 == ExtendIf(<<>>, SystemdGuard(p), SystemdFeatures)
        f2 == ExtendIf(f1, p.hostname, <<"HOSTNAME">>)
        f3 == ExtendIf(f2, NetworkGuard(p), <<"NETWORK">>)
        f4 == ExtendIf(f3, p.timedate, <<"TIMEDATE">>)
        f5 == ExtendIf(f4, p.agent, <<"OS_AGENT">>)
        f6 == ExtendIf(f5, p.os, <<"HAOS">>)
    IN  f6
supported_features(p) ==
    LET f1 == ExtendIf(<<>>, SystemdGuard(p), SystemdFeatures)
        f2 == ExtendIf(f1, NetworkGuard(p), <<"NETWORK">>)
        f3 == ExtendIf(f2, p.hostname, <<"HOSTNAME">>)
        f4 == ExtendIf(f3, p.timedate, <<"TIMEDATE">>)
        f5 == ExtendIf(f4, p.agent, <<"OS_AGENT">>)
        f6 == ExtendIf(f5, p.os, <<"HAOS">>)
    IN  f6

\* ------------------------------------------------------------ @lru_cache
\* the cache holds at most the one entry keyed by self
EmptyCacheHoldsEmptyList == [valid |-> TRUE, value |-> <<>>]
EmptyCache == [valid |-> FALSE, value |-> <<>>]

\* supported_features.cache_clear()
cache_clear_noop(c) == c
cache_clear(c) == EmptyCache

\* a call through the lru_cache wrapper: a hit returns the stored list, a miss
\* runs the body on the probes as they are now and stores the result
lru_lookup_uncached(c, p) ==
    [value |-> supported_features(p), miss |-> TRUE]
lru_lookup_unfilled(c, p) ==
    [value |-> c.value, miss |-> ~c.valid]
lru_lookup(c, p) ==
    IF c.valid THEN [value |-> c.value, miss |-> FALSE]
               ELSE [value |-> supported_features(p), miss |-> TRUE]

NoHist ==
    [last |-> "none", value |-> <<>>, evaluated |-> FALSE, dropped |-> FALSE]

\* the features property: return self.supported_features()
features ==
    LET r == lru_lookup(cache, probe)
    IN  /\ cache' = [valid |-> TRUE, value |-> r.value]
        /\ hist' = [last |-> "read", value |-> r.value, evaluated |-> r.miss,
                    dropped |-> FALSE]
        /\ UNCHANGED <<probe, rl, ld, listeners, bus, hw>>

\* ------------------------------------------------- the subsystems' probes
\* a subsystem controller connects or disconnects, or the OS detector changes
ProbeToggle(n) ==
    /\ probe' = [probe EXCEPT ![n] = ~probe[n]]
    /\ UNCHANGED <<cache, hist, rl, ld, listeners, bus, hw>>

\* the network controller learns of an interface, or loses one
InterfacesChange(k) ==
    /\ k # probe.interfaces
    /\ probe' = [probe EXCEPT !.interfaces = k]
    /\ UNCHANGED <<cache, hist, rl, ld, listeners, bus, hw>>

\* any probe changes
ProbeChange ==
    \/ \E n \in ProbeNames : ProbeToggle(n)
    \/ \E k \in InterfaceLists : InterfacesChange(k)

\* a D-Bus connection comes or goes, or the interfaces change
ConnectionChange ==
    \/ \E n \in ConnectionNames : ProbeToggle(n)
    \/ \E k \in InterfaceLists : InterfacesChange(k)

\* ------------------------------------------------------ external calls
\* how an awaited call into a subsystem ends: it returns, or it raises a
\* PulseAudioError, another HassioError, or an exception that is neither
ErrorKinds == {"PulseAudioError", "HassioError", "Exception"}

\* PulseAudioError is the sound subsystem's own error
Outcomes(callee) ==
    IF callee = "sound" THEN {"ok"} \cup ErrorKinds
                        ELSE {"ok", "HassioError", "Exception"}

\* ---------------------------------------------------------------- reload()
\* the awaits of reload(), in order
StepsSoundBeforeAgent == <<"info", "services", "network", "sound", "agent">>
Steps == <<"info", "services", "network", "agent", "sound">>

StepIndex(s) == CHOOSE i \in 1..Len(Steps) : Steps[i] = s

\* the if in front of each await
StepGuardAlways(s, p) == TRUE
StepGuard(s, p) ==
    CASE s = "info"     -> TRUE
      [] s = "services" -> p.systemd
      [] s = "network"  -> p.network
      [] s = "agent"    -> p.agent
      [] s = "sound"    -> TRUE

\* with suppress(PulseAudioError) around the sound update, and nothing
\* around the others
SuppressedNothing(s, err) == FALSE
SuppressedAtInfo(s, err) ==
    s = "info" \/ (s = "sound" /\ err = "PulseAudioError")
SuppressedEverywhere(s, err) == err = "PulseAudioError" \/ err = "HassioError"
Suppressed(s, err) == s = "sound" /\ err = "PulseAudioError"

\* the first await after step i whose guard holds on the probes as they are
\* when the coroutine is resumed; 0 when the body has run to its end
NextStepAtEntry(i, p) ==
    LET q == [p EXCEPT !.systemd = obs.entry.systemd,
                       !.network = obs.entry.network,
                       !.agent = obs.entry.agent]
        later == {j \in (i + 1)..Len(Steps) : StepGuard(Steps[j], q)}
    IN  IF later = {} THEN 0
        ELSE CHOOSE j \in later : \A k \in later : j <= k
NextStep(i, p) ==
    LET later == {j \in (i + 1)..Len(Steps) : StepGuard(Steps[j], p)}
    IN  IF later = {} THEN 0
        ELSE CHOOSE j \in later : \A k \in later : j <= k

IdleReload ==
    [pc |-> "idle", caller |-> "none", at |-> "none",
     result |-> "none", raised |-> "none", suppressed |-> "none"]

IdleLoad ==
    [pc |-> "idle", result |-> "none", registered |-> FALSE,
     attempted |-> FALSE, reloadError |-> "none", profileError |-> "none"]

\* reload() is entered and runs to its first await, self.info.update()
EnterReload(caller) ==
    [pc |-> "info", caller |-> caller, at |-> "none",
     result |-> "running", raised |-> "none", suppressed |-> "none"]

\* with suppress(HassioError) around load()'s await self.reload()
LoadSuppressedNothing(err) == FALSE
LoadSuppressed(err) == err = "HassioError"

\* sys_bus.register_event for HARDWARE_NEW_DEVICE and HARDWARE_REMOVE_DEVICE
RegisterEventsNewOnly(l) == [l EXCEPT !.new = @ + 1]
RegisterEventsOnce(l) ==
    IF l.new = 0 THEN [l EXCEPT !.new = @ + 1, !.remove = @ + 1] ELSE l
RegisterEvents(l) == [l EXCEPT !.new = @ + 1, !.remove = @ + 1]

\* load() after its reload has ended with err ("none": it returned): the
\* error is suppressed or leaves load(); then both handlers are registered
\* and load() runs to its await self.apparmor.load()
LoadAfterReloadNotResumed(err) == UNCHANGED <<ld, listeners>>
LoadAfterReload(err) ==
    IF err = "none" \/ LoadSuppressed(err)
    THEN /\ ld' = [ld EXCEPT !.pc = "apparmor", !.registered = TRUE,
                             !.attempted = TRUE, !.reloadError = err]
         /\ listeners' = RegisterEvents(listeners)
    ELSE /\ ld' = [ld EXCEPT !.pc = "idle", !.result = "raised",
                             !.reloadError = err]
         /\ UNCHANGED listeners

\* reload() ends: it returns (err = "none") or raises err to its caller; sup
\* is the error it suppressed on the way ("none": no error). at: the await
\* it ended after
ReloadEnds(err, sup) ==
    /\ rl' = [IdleReload EXCEPT
                 !.result = IF err = "none" THEN "returned" ELSE "raised",
                 !.raised = err, !.suppressed = sup, !.at = rl.pc]
    /\ IF rl.caller = "load" THEN LoadAfterReload(err)
                             ELSE UNCHANGED <<ld, listeners>>

\* a caller other than load() awaits reload()
reload_call ==
    /\ rl.pc = "idle"
    /\ rl' = EnterReload("api")
    /\ UNCHANGED <<probe, cache, hist, ld, listeners, bus, hw>>

\* the awaited update of reload() ends with outcome o and reload() runs on
\* to its next await or to its end
reload_resume(o) ==
    /\ rl.pc # "idle"
    /\ o \in Outcomes(rl.pc)
    /\ IF o # "ok" /\ ~Suppressed(rl.pc, o)
       THEN \* the error leaves reload(): nothing below the await runs
            /\ ReloadEnds(o, rl.suppressed)
            /\ UNCHANGED <<cache, hist>>
       ELSE LET n == NextStep(StepIndex(rl.pc), probe)
                sup == IF o = "ok" THEN rl.suppressed ELSE o
            IN  IF n = 0
                THEN \* self.supported_features.cache_clear()
                     /\ cache' = cache_clear(cache)
                     /\ hist' = [NoHist EXCEPT !.last = "reload",
                                              !.dropped = cache.valid]
                     /\ ReloadEnds("none", sup)
                ELSE \* the next update is called
                     /\ rl' = [rl EXCEPT !.pc = Steps[n], !.suppressed = sup]
                     /\ UNCHANGED <<cache, hist, ld, listeners>>
    /\ UNCHANGED <<probe, bus, hw>>

\* ------------------------------------------------------------------ load()
\* load() is called and runs into its reload()
load_call ==
    /\ ld.pc = "idle"
    /\ rl.pc = "idle"
    /\ listeners.new < MaxLoads
    /\ ld' = [IdleLoad EXCEPT !.pc = "reload", !.result = "running"]
    /\ rl' = EnterReload("load")
    /\ UNCHANGED <<probe, cache, hist, listeners, bus, hw>>

\* except HassioError around await self.apparmor.load(): a warning is logged
ProfileCaught(err) == err = "HassioError"

\* await self.apparmor.load() ends with outcome o
load_resume(o) ==
    /\ ld.pc = "apparmor"
    /\ o \in Outcomes("apparmor")
    /\ ld' = [ld EXCEPT !.pc = "idle",
                        !.result = IF o = "ok" \/ ProfileCaught(o)
                                   THEN "returned" ELSE "raised",
                        !.profileError = IF o = "ok" THEN "none" ELSE o]
    /\ UNCHANGED <<probe, cache, hist, rl, listeners, bus, hw>>

\* --------------------------------------------------------- hardware events
EventKinds == {"new", "remove"}

NoEvent == [pending |-> 0, match |-> FALSE]
NoHandled == [updates |-> 0, raised |-> FALSE]

\* the hardware registry fires an event for a device; the bus starts one task
\* per listener registered for that event, none when there is no listener.
\* match: whether the policy puts the device in PolicyGroup.AUDIO
fire_event(kind, match) ==
    /\ bus.pending = 0
    /\ bus' = IF listeners[kind] = 0 THEN NoEvent
              ELSE [pending |-> listeners[kind], match |-> match]
    /\ hw' = NoHandled
    /\ UNCHANGED <<probe, cache, hist, rl, ld, listeners>>

\* if self.sys_hardware.policy.is_match_cgroup(PolicyGroup.AUDIO, device)
AudioGuardAlways(match) == TRUE
AudioGuardNever(match) == FALSE
AudioGuard(match) == match

\* nothing stands around the handler's await self.sound.update()
HandlerSuppressedAsReload(err) == err = "PulseAudioError"
HandlerSuppressed(err) == FALSE

\* one invocation of _hardware_events(device); o is how sound.update() ends
hardware_events(o) ==
    /\ bus.pending > 0
    /\ o \in Outcomes("sound")
    /\ IF AudioGuard(bus.match)
       THEN \* await self.sound.update(); its error leaves the handler
            hw' = [updates |-> hw.updates + 1,
                   raised |-> o # "ok" /\ ~HandlerSuppressed(o)]
       ELSE /\ o = "ok"
            /\ hw' = [hw EXCEPT !.raised = FALSE]
    /\ bus' = IF bus.pending = 1 THEN NoEvent
              ELSE [bus EXCEPT !.pending = @ - 1]
    /\ UNCHANGED <<probe, cache, hist, rl, ld, listeners>>

\* ------------------------------------------------------------ the observer
\* the connections as reload() finds them
ConnectionsOf(p) == [n \in ConnectionNames |-> p[n]]

\* event: the kind of the last event the bus had a listener for
\* during: the await the reload() in flight was suspended at when a handler
\*         invocation last ran ("none": none has run since it was entered)
\* entry: the connections when the reload() in flight was entered
NoObs ==
    [event |-> "none", during |-> "none", entry |-> ConnectionsOf(Disconnected)]

\* reload() is entered
TraceEntered ==
    obs' = [obs EXCEPT !.entry = ConnectionsOf(probe), !.during = "none"]

\* reload() is resumed; at its end the notes about it are dropped
TraceResumed ==
    obs' = IF rl'.pc = "idle"
           THEN [obs EXCEPT !.entry = NoObs.entry, !.during = "none"]
           ELSE obs

\* an event is fired
TraceFired(kind) ==
    obs' = [obs EXCEPT !.event = IF listeners[kind] = 0 THEN "none" ELSE kind]

\* a handler invocation runs
TraceHandled ==
    obs' = IF rl.pc = "idle" THEN obs ELSE [obs EXCEPT !.during = rl.pc]

\* ---------------------------------------------------------- specifications
NoListeners == [new |-> 0, remove |-> 0]

Init ==
    /\ probe = Disconnected
    /\ cache = EmptyCache
    /\ hist = NoHist
    /\ rl = IdleReload
    /\ ld = IdleLoad
    /\ listeners = NoListeners
    /\ bus = NoEvent
    /\ hw = NoHandled
    /\ obs = NoObs

\* hostname, timedate and os are read by supported_features alone: here they
\* stay as they are at construction, and SpecResolver below changes them
Next ==
    \/ ConnectionChange /\ UNCHANGED obs
    \/ features /\ UNCHANGED obs
    \/ reload_call /\ UNCHANGED obs
    \/ \E o \in {"ok"} \cup ErrorKinds : reload_resume(o) /\ UNCHANGED obs
    \/ load_call /\ UNCHANGED obs
    \/ \E o \in {"ok"} \cup ErrorKinds : load_resume(o) /\ UNCHANGED obs
    \/ \E k \in EventKinds, m \in BOOLEAN : fire_event(k, m) /\ UNCHANGED obs
    \/ \E o \in {"ok"} \cup ErrorKinds : hardware_events(o) /\ UNCHANGED obs

Spec == Init /\ [][Next]_vars

\* the resolver and its memo alone, from every value of the probes
InitResolver ==
    /\ probe \in Probes
    /\ cache = EmptyCache
    /\ hist = NoHist
    /\ rl = IdleReload
    /\ ld = IdleLoad
    /\ listeners = NoListeners
    /\ bus = NoEvent
    /\ hw = NoHandled
    /\ obs = NoObs

NextResolver ==
    \/ ProbeChange /\ UNCHANGED obs
    \/ features /\ UNCHANGED obs

SpecResolver == InitResolver /\ [][NextResolver]_vars

\* the coroutines and the readers without the hardware events, whose handler
\* touches neither reload() nor load()
NextCalls ==
    \/ ConnectionChange /\ UNCHANGED obs
    \/ features /\ UNCHANGED obs
    \/ reload_call /\ UNCHANGED obs
    \/ \E o \in {"ok"} \cup ErrorKinds : reload_resume(o) /\ UNCHANGED obs
    \/ load_call /\ UNCHANGED obs
    \/ \E o \in {"ok"} \cup ErrorKinds : load_resume(o) /\ UNCHANGED obs

\* every awaited call ends, by returning or by raising: the event loop
\* resumes the coroutine that awaits it. Nothing obliges a caller to call
\* reload() or load(), or a reader to read.
SpecFair ==
    /\ Init
    /\ [][NextCalls]_vars
    /\ WF_vars(\E o \in {"ok"} \cup ErrorKinds :
                  reload_resume(o) /\ UNCHANGED obs)
    /\ WF_vars(\E o \in {"ok"} \cup ErrorKinds :
                  load_resume(o) /\ UNCHANGED obs)

\* the coroutines and the bus without the readers of features, and so
\* without the interfaces, which supported_features alone reads; the observer
\* takes notes
NextTraced ==
    \/ \E n \in ConnectionNames : ProbeToggle(n) /\ UNCHANGED obs
    \/ reload_call /\ TraceEntered
    \/ \E o \in {"ok"} \cup ErrorKinds : reload_resume(o) /\ TraceResumed
    \/ load_call /\ TraceEntered
    \/ \E o \in {"ok"} \cup ErrorKinds : load_resume(o) /\ UNCHANGED obs
    \/ \E k \in EventKinds, m \in BOOLEAN : fire_event(k, m) /\ TraceFired(k)
    \/ \E o \in {"ok"} \cup ErrorKinds : hardware_events(o) /\ TraceHandled

SpecTraced == Init /\ [][NextTraced]_vars

\* ------------------------------------------------------------- the claims
Has(v, f) == \E i \in 1..Len(v) : v[i] = f

\* the eight flags in the order the claims give
FeatureOrder ==
    <<"REBOOT", "SHUTDOWN", "SERVICES", "NETWORK", "HOSTNAME", "TIMEDATE",
      "OS_AGENT", "HAOS">>

\* the signal each flag stands for
FlagHolds(f, p) ==
    CASE f \in {"REBOOT", "SHUTDOWN", "SERVICES"} -> p.systemd
      [] f = "NETWORK"  -> p.network /\ p.interfaces # <<>>
      [] f = "HOSTNAME" -> p.hostname
      [] f = "TIMEDATE" -> p.timedate
      [] f = "OS_AGENT" -> p.agent
      [] f = "HAOS"     -> p.os

ExpectedFlags(p) ==
    LET Test(f) == FlagHolds(f, p)
    IN  SelectSeq(FeatureOrder, Test)

\* a read of features that finds the cache empty
FreshRead == features /\ ~cache.valid

\* C1: a fresh evaluation of supported_features() returns exactly the flags
\* whose signal is true, each once, in the order Reboot, Shutdown,
\* ServiceManagement, Networking, HostIdentity, TimeAndDate, PrivilegedAgent,
\* SpecificOS; with every signal false it returns the empty list.
C1_FreshEvaluationIsExact ==
    [][FreshRead => /\ hist'.value = ExpectedFlags(probe)
                    /\ (probe = Disconnected => hist'.value = <<>>)]_vars

\* the scenario of the specification, freshly evaluated
C1_Witness ==
    /\ hist.last = "read"
    /\ hist.evaluated
    /\ probe = [Disconnected EXCEPT !.network = TRUE, !.interfaces = <<"eth0">>,
                                    !.hostname = TRUE]
    /\ hist.value = <<"NETWORK", "HOSTNAME">>

Coupled(v) ==
    /\ Has(v, "REBOOT") = Has(v, "SHUTDOWN")
    /\ Has(v, "SHUTDOWN") = Has(v, "SERVICES")

\* C2: every list features returns, after any probe changes, reads, reloads
\* and hardware events, holds Reboot, Shutdown and ServiceManagement all
\* three or none of them.
C2_PowerFlagsCoupled ==
    /\ hist.last = "read" => Coupled(hist.value)
    /\ cache.valid => Coupled(cache.value)

C2_Witness ==
    /\ hist.last = "read"
    /\ Has(hist.value, "REBOOT")
    /\ Has(hist.value, "SHUTDOWN")
    /\ Has(hist.value, "SERVICES")
    /\ rl.result = "returned"
    /\ hw.updates > 0

\* C3: a fresh evaluation holds Networking iff the network connection is
\* live and the list of interfaces is not empty.
C3_NetworkingGuard ==
    [][FreshRead => (Has(hist'.value, "NETWORK")
                        <=> (probe.network /\ probe.interfaces # <<>>))]_vars

\* connected with no interface: freshly evaluated, no Networking
C3_Witness ==
    /\ hist.last = "read"
    /\ hist.evaluated
    /\ probe.network
    /\ probe.interfaces = <<>>
    /\ ~Has(hist.value, "NETWORK")

\* C4: a read of features that follows a read, with no reload completed in
\* between, returns the same list and does not run the body again, whatever
\* the probes have become.
C4_SecondReadIsMemoized ==
    [][(features /\ hist.last = "read")
          => (hist'.value = hist.value /\ ~hist'.evaluated)]_vars

\* a second read has returned a list the probes no longer give
C4_Witness ==
    /\ hist.last = "read"
    /\ ~hist.evaluated
    /\ hist.value # supported_features(probe)

\* C5: the first read of features after reload() has completed runs the body
\* of supported_features again.
C5_ReadAfterReloadEvaluates ==
    [][(features /\ hist.last = "reload") => hist'.evaluated]_vars

\* reload() has returned, then features was read and evaluated
C5_Witness ==
    /\ hist.last = "read"
    /\ hist.evaluated
    /\ rl.pc = "idle"
    /\ rl.result = "returned"

\* C6 as stated: whatever the sound update raises during reload(), reload()
\* returns and clears the cache.
C6_AnySoundErrorSuppressed ==
    [][\A o \in ErrorKinds :
          (reload_resume(o) /\ rl.pc = "sound")
             => (rl'.result = "returned" /\ ~cache'.valid)]_vars

\* C6 amended: when the sound update raises a PulseAudioError during
\* reload(), reload() returns without raising and clears the cache; and the
\* sound update is called only once the update before it has returned, so
\* the earlier updates have been called and have returned.
C6_PulseAudioErrorSuppressed ==
    [][/\ (reload_resume("PulseAudioError") /\ rl.pc = "sound")
          => /\ rl'.pc = "idle"
             /\ rl'.result = "returned"
             /\ rl'.raised = "none"
             /\ rl'.suppressed = "PulseAudioError"
             /\ rl'.at = "sound"
             /\ ~cache'.valid
       /\ (rl'.pc = "sound" /\ rl.pc # "sound")
          => /\ rl.pc \in {"info", "services", "network", "agent"}
             /\ reload_resume("ok")
      ]_vars

C6_Witness ==
    /\ rl.pc = "idle"
    /\ rl.result = "returned"
    /\ rl.suppressed = "PulseAudioError"
    /\ hist.last = "reload"
    /\ ~cache.valid

\* the connection a guarded step of reload() stands behind
ConnectionLive(s, p) ==
    CASE s = "services" -> p.systemd
      [] s = "network"  -> p.network
      [] s = "agent"    -> p.agent

\* reload() calls the update of subsystem s in this step
Invokes(s) == rl'.pc = s /\ rl.pc # s

\* C7: reload() never calls the update of the services, the network or the
\* agent while that subsystem's connection is down, and a step skipped is no
\* failure: resumed by a call that returned, reload() does not raise.
C7_SkipWhenDown ==
    [][/\ \A s \in {"services", "network", "agent"} :
             Invokes(s) => ConnectionLive(s, probe)
       /\ reload_resume("ok") => (rl'.result # "raised" /\ rl'.raised = "none")
      ]_vars

\* reload() has skipped the services, whose connection is down, and is at
\* the update of the network, whose connection is up
C7_Witness ==
    /\ rl.pc = "network"
    /\ ~probe.systemd
    /\ probe.network

\* the failure of a subsystem, read as the error of its own kind
OwnError(s, err) ==
    IF s = "sound" THEN err = "PulseAudioError" ELSE err = "HassioError"

\* C8 as stated: only the failure of the info update leaves reload(); the
\* failure of the services, network, agent or sound update is caught at its
\* step and reload() does not raise.
C8_OnlyInfoRaises ==
    [][\A o \in ErrorKinds :
          (reload_resume(o) /\ rl.pc # "info" /\ OwnError(rl.pc, o))
             => rl'.result # "raised"]_vars

\* C8 amended: the failure of the info, services, network or agent update
\* leaves reload(), and so does a failure of the sound update that is no
\* PulseAudioError: reload() raises it, calls no later update and leaves the
\* cache as it is. Only a PulseAudioError of the sound update is caught at
\* its step: reload() returns and clears the cache.
C8_OnlySoundPulseErrorCaught ==
    [][\A o \in ErrorKinds :
          reload_resume(o)
             => IF rl.pc = "sound" /\ o = "PulseAudioError"
                THEN rl'.result = "returned" /\ ~cache'.valid
                ELSE /\ rl'.pc = "idle"
                     /\ rl'.result = "raised"
                     /\ rl'.raised = o
                     /\ rl'.at = rl.pc
                     /\ cache' = cache
                     /\ hist' = hist]_vars

\* the services update has failed and reload() has raised, the cache kept
C8_Witness ==
    /\ rl.pc = "idle"
    /\ rl.result = "raised"
    /\ rl.at = "services"
    /\ rl.raised = "HassioError"
    /\ cache.valid

\* C9: one invocation of the hardware-event handler for a device that
\* matches the Audio group calls the sound update once and no other update,
\* and leaves the cache as it is; for a device that does not match it calls
\* no update and changes nothing of the manager.
C9_HandlerIsScoped ==
    [][\A o \in {"ok"} \cup ErrorKinds :
          hardware_events(o)
             => /\ hw'.updates = IF bus.match THEN hw.updates + 1 ELSE hw.updates
                /\ cache' = cache
                /\ hist' = hist
                /\ rl' = rl
                /\ ld' = ld
                /\ listeners' = listeners
                /\ probe' = probe]_vars

\* the one handler of a matching event has run: one sound update, and the
\* cache is still valid
C9_Witness ==
    /\ listeners = [new |-> 1, remove |-> 1]
    /\ bus.pending = 0
    /\ hw.updates = 1
    /\ cache.valid

LoadEnded == ld.pc = "idle" /\ ld.result \in {"returned", "raised"}

\* C10 as stated: whatever its reload and the profile load raise, load()
\* returns, with both handlers registered and the profile load attempted.
C10_LoadNeverRaises ==
    LoadEnded => (ld.result = "returned" /\ ld.registered /\ ld.attempted)

\* C10 amended: when the error its reload raises and the error the profile
\* load raises are HassioErrors (or there is none), load() returns without
\* raising, both handlers have been registered and the profile load has been
\* attempted; load() raises only an error that is no HassioError.
C10_LoadSwallowsHassioError ==
    /\ (LoadEnded /\ ld.reloadError \in {"none", "HassioError"}
                  /\ ld.profileError \in {"none", "HassioError"})
          => /\ ld.result = "returned"
             /\ ld.registered
             /\ ld.attempted
             /\ listeners.new >= 1
             /\ listeners.remove = listeners.new
    /\ (LoadEnded /\ ld.result = "raised")
          => (ld.reloadError = "Exception" \/ ld.profileError = "Exception")

\* reload and profile load both failed with a HassioError; load() returned
C10_Witness ==
    /\ LoadEnded
    /\ ld.result = "returned"
    /\ ld.reloadError = "HassioError"
    /\ ld.profileError = "HassioError"
    /\ ld.registered
    /\ ld.attempted

\* C11: load() registers the one handler for both events, in the step in
\* which its reload ends: from then on an event of either kind starts as
\* many handler invocations as the other would, and an invocation for an
\* Audio device calls the sound update whichever event it was started by;
\* while no handler is registered, load()'s own reload included, a fired
\* event starts no invocation and no sound update is called.
C11_BothEventsSameHandler ==
    [][/\ listeners.new = listeners.remove
       /\ listeners' # listeners
             => /\ ld.pc = "reload" /\ ld'.pc = "apparmor"
                /\ listeners'.new = listeners.new + 1
                /\ listeners'.remove = listeners.remove + 1
       /\ \A k \in EventKinds, m \in BOOLEAN :
             fire_event(k, m)
                => /\ bus'.pending = listeners.new
                   /\ bus'.pending > 0 => bus'.match = m
       /\ \A o \in {"ok"} \cup ErrorKinds :
             (hardware_events(o) /\ bus.match)
                => /\ hw'.updates = hw.updates + 1
                   /\ listeners.new >= 1
       /\ listeners = NoListeners
             => /\ bus.pending = 0 /\ hw.updates = 0
                /\ bus'.pending = 0 /\ hw'.updates = 0
       /\ ld.registered => (listeners.new >= 1 /\ listeners.remove >= 1)
      ]_vars

\* load() has returned and the one handler of a remove event for an Audio
\* device has called the sound update
C11_Witness ==
    /\ LoadEnded
    /\ ld.result = "returned"
    /\ listeners = [new |-> 1, remove |-> 1]
    /\ obs.event = "remove"
    /\ bus.pending = 0
    /\ hw.updates = 1

\* C12: load() registers its handlers again each time it is called: a load()
\* that reaches its registration adds one listener to each event whatever
\* is registered already, a fired event starts one handler invocation per
\* listener, and each invocation for an Audio device calls the sound update
\* once; after two loads an Audio event gets two sound updates.
C12_SecondLoadRegistersAgain ==
    [][/\ (ld.pc = "reload" /\ ld'.pc = "apparmor")
             => /\ listeners'.new = listeners.new + 1
                /\ listeners'.remove = listeners.remove + 1
       /\ \A k \in EventKinds, m \in BOOLEAN :
             fire_event(k, m)
                => /\ bus'.pending = listeners[k]
                   /\ hw'.updates = 0
                   /\ listeners[k] = 2 => (bus'.pending = 2 /\ bus'.match = m)
       /\ \A o \in {"ok"} \cup ErrorKinds :
             hardware_events(o)
                => /\ bus'.pending = bus.pending - 1
                   /\ bus.match => hw'.updates = hw.updates + 1
                   /\ bus'.pending > 0 => bus'.match = bus.match
       /\ (load_call /\ listeners.new >= 1)
             => (ld'.pc = "reload" /\ rl'.pc = "info")
      ]_vars

\* load() has registered twice and both handlers of one Audio event have
\* called the sound update
C12_Witness ==
    /\ listeners = [new |-> 2, remove |-> 2]
    /\ bus.pending = 0
    /\ hw.updates = 2

\* C13: whatever reload(), load() and the handlers are doing, a read of
\* features is never refused and returns one list: on a miss the result of
\* supported_features on the probes as they are at that read, on a hit the
\* list in the cache; and the cache is filled by a missing read alone, with
\* that whole list, never changed in part. So every list returned is the
\* result of supported_features on the probes of one moment.
C13_ReadsSeeOneSnapshot ==
    [][/\ ENABLED features
       /\ features
             => /\ hist'.last = "read"
                /\ cache'.valid /\ cache'.value = hist'.value
                /\ IF cache.valid
                   THEN hist'.value = cache.value /\ ~hist'.evaluated
                   ELSE hist'.value = supported_features(probe) /\ hist'.evaluated
                /\ \E p \in Probes : hist'.value = supported_features(p)
       /\ (cache'.valid /\ cache' # cache)
             => /\ features
                /\ ~cache.valid
                /\ cache'.value = supported_features(probe)
      ]_vars

\* while reload() is suspended at the sound update and a handler invocation
\* is due, a read has missed and returned the list of the probes as they are
C13_Witness ==
    /\ rl.pc = "sound"
    /\ bus.pending > 0
    /\ hist.last = "read"
    /\ hist.evaluated
    /\ hist.value = <<"REBOOT", "SHUTDOWN", "SERVICES", "NETWORK", "OS_AGENT">>
    /\ hist.value = supported_features(probe)

\* the order of the refreshes as the claims give it
ReloadOrder == <<"info", "services", "network", "agent", "sound">>

Rank(s) == CHOOSE i \in 1..Len(ReloadOrder) : ReloadOrder[i] = s

\* whether the refresh of s is due on the probes p
Applies(s, p) ==
    IF s \in {"services", "network", "agent"} THEN ConnectionLive(s, p) ELSE TRUE

\* t is the first refresh after s that is due on the probes p
Proceeds(s, t, p) ==
    /\ Rank(s) < Rank(t)
    /\ Applies(t, p)
    /\ \A i \in 1..Len(ReloadOrder) :
          (Rank(s) < i /\ i < Rank(t)) => ~Applies(ReloadOrder[i], p)

\* the awaited refresh has returned, or its error is suppressed
Passes(s, o) == o = "ok" \/ (s = "sound" /\ o = "PulseAudioError")

\* C14: a handler invocation that runs while reload() is suspended changes
\* nothing of the reload, the load, the cache or the probes, and calls the
\* sound update once for an Audio device and nothing else; the reload then
\* goes on as it would: from each refresh that returns to the first later
\* refresh that is due, and after the sound refresh to cache_clear() and
\* its return.
C14_ReloadUnaffectedByHandler ==
    [][/\ \A o \in {"ok"} \cup ErrorKinds :
             (hardware_events(o) /\ rl.pc # "idle")
                => /\ rl' = rl /\ ld' = ld /\ listeners' = listeners
                   /\ cache' = cache /\ hist' = hist /\ probe' = probe
                   /\ hw'.updates = IF bus.match THEN hw.updates + 1
                                                ELSE hw.updates
       /\ \A o \in {"ok"} \cup ErrorKinds :
             (reload_resume(o) /\ obs.during # "none" /\ Passes(rl.pc, o))
                => IF rl.pc = "sound"
                   THEN /\ rl'.pc = "idle" /\ rl'.result = "returned"
                        /\ hist'.last = "reload" /\ ~cache'.valid
                   ELSE /\ rl'.pc # "idle"
                        /\ Proceeds(rl.pc, rl'.pc, probe)
                        /\ cache' = cache /\ hist' = hist
      ]_vars

\* a handler invocation ran and called the sound update while reload() was
\* suspended at the network update; reload() has gone on to its sound update
C14_Witness ==
    /\ obs.during = "network"
    /\ hw.updates = 1
    /\ rl.pc = "sound"

\* cache_clear() is run in this step
Clears == (cache.valid /\ ~cache'.valid) \/ (hist'.last = "reload" /\ hist' # hist)

\* C15: reload() calls its refreshes one at a time in the order host info,
\* services, network, agent, sound: the first it calls is host info, each
\* later one is called in the step in which an earlier one returns, none is
\* called twice in one reload(); cache_clear() runs only in the step in
\* which the sound refresh ends, and reload() returns in that same step.
C15_StepsInOrder ==
    [][/\ (rl'.pc # rl.pc /\ rl'.pc # "idle")
             => IF rl.pc = "idle"
                THEN rl'.pc = "info" /\ (reload_call \/ load_call)
                ELSE /\ Rank(rl.pc) < Rank(rl'.pc)
                     /\ reload_resume("ok")
       /\ (rl.pc # "idle" /\ rl'.caller # rl.caller) => rl'.pc = "idle"
       /\ Clears
             => /\ rl.pc = "sound"
                /\ rl'.pc = "idle"
                /\ rl'.result = "returned"
       /\ (rl.pc = "sound" /\ rl'.pc = "idle" /\ rl'.result = "returned")
             => (~cache'.valid /\ hist'.last = "reload")
      ]_vars

\* with every connection live reload() has gone through its refreshes to
\* the sound update, which returned, and has cleared the cache and returned
C15_Witness ==
    /\ rl.pc = "idle"
    /\ rl.result = "returned"
    /\ rl.at = "sound"
    /\ rl.suppressed = "none"
    /\ hist.last = "reload"
    /\ probe.systemd /\ probe.network /\ probe.agent

\* reload() has raised the failure of its host info refresh
InfoFailed == rl.pc = "idle" /\ rl.result = "raised" /\ rl.at = "info"

\* C16: when the host info refresh fails, reload() raises that error to its
\* caller in the same step: no other refresh is called in that reload() and
\* the cache is left as it was; a read after it that finds the cache filled
\* returns the cached list without evaluating.
C16_InfoFailureRaises ==
    [][/\ \A o \in ErrorKinds :
             (reload_resume(o) /\ rl.pc = "info")
                => /\ rl'.pc = "idle"
                   /\ rl'.result = "raised"
                   /\ rl'.raised = o
                   /\ rl'.at = "info"
                   /\ cache' = cache
                   /\ hist' = hist
       /\ (features /\ InfoFailed /\ cache.valid)
             => /\ hist'.value = cache.value
                /\ ~hist'.evaluated
                /\ cache' = cache
      ]_vars

\* the host info refresh failed, and a read returns the list cached before,
\* which the probes no longer give
C16_Witness ==
    /\ InfoFailed
    /\ rl.raised = "HassioError"
    /\ hist.last = "read"
    /\ ~hist.evaluated
    /\ cache.valid
    /\ hist.value # supported_features(probe)

\* reload() returns in this step
Completes == rl.pc # "idle" /\ rl'.pc = "idle" /\ rl'.result = "returned"

\* C17: when reload() returns, the cache is empty in that same step, whatever
\* a read had cached before or while it ran; nothing but a read fills it
\* again, and the first read after reload() has returned evaluates and
\* returns the result of supported_features on the probes as they are at
\* that read.
C17_CachedListDoesNotSurvive ==
    [][/\ Completes
             => /\ ~cache'.valid
                /\ hist'.last = "reload"
                /\ hist'.dropped = cache.valid
       /\ hist.last = "reload" => ~cache.valid
       /\ (features /\ hist.last = "reload")
             => /\ hist'.evaluated
                /\ hist'.value = supported_features(probe)
                /\ cache'.value = supported_features(probe)
      ]_vars

\* reload() has returned and the list a read had cached is gone
C17_Witness ==
    /\ rl.pc = "idle"
    /\ rl.result = "returned"
    /\ hist.last = "reload"
    /\ hist.dropped
    /\ ~cache.valid
    /\ supported_features(probe) # <<>>

\* C18: reload() reads the connection of the services, the network and the
\* agent when it gets to their step, that is in the step in which the
\* refresh before returns, whatever the connection was when reload() was
\* entered: it calls the first later refresh whose connection is live at
\* that moment and passes over those whose connection is down.
C18_GuardsReadWhenReached ==
    [][/\ \A o \in {"ok"} \cup ErrorKinds :
             (reload_resume(o) /\ Passes(rl.pc, o) /\ rl.pc # "sound")
                => /\ rl'.pc # "idle"
                   /\ Proceeds(rl.pc, rl'.pc, probe)
       /\ \A s \in {"services", "network", "agent"} :
             /\ Invokes(s) => ConnectionLive(s, probe)
             /\ (rl.pc # "idle" /\ rl'.pc # "idle"
                   /\ Rank(rl.pc) < Rank(s) /\ Rank(s) < Rank(rl'.pc))
                   => ~ConnectionLive(s, probe)
      ]_vars

\* the agent was not connected when reload() was entered, has connected
\* while an earlier refresh was awaited, and its update has been called
C18_Witness ==
    /\ rl.pc = "agent"
    /\ ~obs.entry.agent
    /\ probe.agent

\* C19: when the sound update called by a handler invocation for an Audio
\* device raises, of whatever class the error is, the error leaves the
\* handler, and the cache, the reload, the load, the listeners and the
\* probes are as they were; reload() for its part returns when its sound
\* update raises a PulseAudioError.
C19_HandlerDoesNotSuppress ==
    [][/\ \A o \in ErrorKinds :
             (hardware_events(o) /\ bus.match)
                => /\ hw'.raised
                   /\ hw'.updates = hw.updates + 1
                   /\ cache' = cache /\ hist' = hist
                   /\ rl' = rl /\ ld' = ld
                   /\ listeners' = listeners /\ probe' = probe
       /\ hardware_events("ok") => ~hw'.raised
       /\ (reload_resume("PulseAudioError") /\ rl.pc = "sound")
             => rl'.result = "returned"
      ]_vars

\* the sound update of the one handler of an Audio event has raised out of
\* the handler, and the cache still holds its list
C19_Witness ==
    /\ listeners = [new |-> 1, remove |-> 1]
    /\ bus.pending = 0
    /\ hw.updates = 1
    /\ hw.raised
    /\ cache.valid

\* C20 as stated: when every awaited call ends, by returning or by raising,
\* a load() that was called gets to have its handlers registered.
C20_LoadAlwaysRegisters == (ld.pc = "reload") ~> ld.registered

\* C20 amended: when every awaited call ends, load() ends; it has registered its
\* handlers unless its reload raised an error that is no HassioError, in
\* which case it has raised that error and registered nothing. And a
\* reload() gets on only in the step in which the call it awaits ends: while
\* that call has not ended, reload() stays at its await, does not return
\* and does not run cache_clear().
C20_LoadEndsWhenCallsEnd ==
    /\ (ld.pc = "reload")
          ~> (LoadEnded /\ (ld.registered \/ ld.reloadError = "Exception"))
    /\ (ld.pc = "apparmor") ~> LoadEnded
    /\ [][/\ (LoadEnded' /\ ~LoadEnded /\ ld'.registered)
                => (ld.pc = "apparmor" /\ listeners.new >= 1)
          /\ (LoadEnded' /\ ~LoadEnded /\ ~ld'.registered)
                => (ld'.result = "raised" /\ listeners' = listeners)
          /\ (rl.pc # "idle"
                /\ ~(\E o \in {"ok"} \cup ErrorKinds : reload_resume(o)))
                => (rl' = rl /\ ~Clears)
         ]_vars

\* the reload of load() failed with a HassioError, the profile load
\* returned: load() has returned with its handlers registered
C20_Witness ==
    /\ LoadEnded
    /\ ld.result = "returned"
    /\ ld.reloadError = "HassioError"
    /\ ld.profileError = "none"
    /\ ld.registered
    /\ listeners = [new |-> 1, remove |-> 1]

====
